---------------------------- MODULE Spec2Model ----------------------------
(***************************************************************************)
(* Model of functions/src/processTestCase.ts: the per-test-case evaluation *)
(* pipeline (template expansion, retry-wrapped completion and embedding    *)
(* calls, cosine-similarity scoring, persisted status).                    *)
(*                                                                         *)
(* Strings are sequences of one-character strings.  Numbers are fixed-point*)
(* integers in units of 1/Scale with truncating division and a truncating  *)
(* square root, plus the three IEEE specials "NaN", "Infinity" and         *)
(* "-Infinity"; as with doubles, rounding in the norm can push the         *)
(* quotient of cosineSimilarity past 1.                                    *)
(***************************************************************************)
EXTENDS Integers, Sequences, FiniteSets, TLC

VARIABLES
    \* ---- invocations of processTestCase (one per element of Procs) ----
    runId,              \* promptTestResults.id (both invocations: same run)
    testCaseId,         \* testCase.id of each invocation
    pc,                 \* where each invocation is suspended
    attempt,            \* retryOnFailure: attempts made in the current call
    delaying,           \* retryOnFailure: waiting delaySeconds before a retry
    formattedPrompt,    \* runPromptTestCase: const formattedPrompt
    gptCompletions,     \* runPromptTestCase: const gptCompletions
    gptEmbeddings,      \* runPromptTestCase: const gptEmbeddings
    llmCompletions,     \* processTestCase: let llmCompletions
    cosineSimilarityScore, \* processTestCase: let cosineSimilarityScore
    caught,             \* the value caught by the catch block (line 88)
    raised,             \* the value the invocation rejected with, if any
    store,              \* the result store: record per (run id, test case id)
    issued,             \* history: the kinds of external call each invocation issued
    writes,             \* history: the store writes each invocation had applied
    \* ---- the retry wrapper on its own (SpecRetry) ----
    rMax, rPc, rCalls, rHistory, rResult,
    \* ---- template expansion on its own (SpecExpand) ----
    xTemplate, xFixture, xPc, xResult,
    \* ---- vector averaging on its own (SpecAverage) ----
    aVectors, aPc, aResult

pipeVars == <<runId, testCaseId, pc, attempt, delaying, formattedPrompt,
              gptCompletions, gptEmbeddings, llmCompletions,
              cosineSimilarityScore, caught, raised, store, issued, writes>>
retryVars == <<rMax, rPc, rCalls, rHistory, rResult>>
expandVars == <<xTemplate, xFixture, xPc, xResult>>
avgVars == <<aVectors, aPc, aResult>>
vars == <<pipeVars, retryVars, expandVars, avgVars>>

----------------------------------------------------------------------------
(* Bounds of the model *)

\* fixed-point resolution: the number 1 is Scale units
Scale == 4
\* most texts the completion service returns in one response
MaxTexts == 2
\* largest maxAttempts the retry wrapper is tried with on its own
MaxRetryBound == 5
\* most pieces a template is assembled from (SpecExpand)
MaxPieces == 2
\* largest dimension of the vectors averaged on their own (SpecAverage)
MaxDim == 2

(* Program constants *)
OPENAI_MAX_RETRY == 4
HUGGINGFACE_MAX_RETRY == 4

Procs == {1, 2}

----------------------------------------------------------------------------
(* Strings *)

\* the text of a natural number, as Number.prototype.toString gives it
Digit(d) == <<"0","1","2","3","4","5","6","7","8","9">>[d + 1]

RECURSIVE NumToString(_)
NumToString(n) ==
    IF n < 10 THEN <<Digit(n)>> ELSE NumToString(n \div 10) \o <<Digit(n % 10)>>

\* index of the first occurrence of key in s at or after i, 0 when none
RECURSIVE IndexOf(_, _, _)
IndexOf(s, key, i) ==
    IF i + Len(key) - 1 > Len(s) THEN 0
    ELSE IF SubSeq(s, i, i + Len(key) - 1) = key THEN i
    ELSE IndexOf(s, key, i + 1)

\* String.prototype.split(key) for a non-empty key
RECURSIVE Split(_, _)
Split(s, key) ==
    LET i == IndexOf(s, key, 1) IN
    IF i = 0 THEN <<s>>
    ELSE <<SubSeq(s, 1, i - 1)>> \o Split(SubSeq(s, i + Len(key), Len(s)), key)

\* Array.prototype.join(sep)
RECURSIVE Join(_, _)
Join(parts, sep) ==
    IF Len(parts) = 0 THEN <<>>
    ELSE IF Len(parts) = 1 THEN parts[1]
    ELSE parts[1] \o sep \o Join(Tail(parts), sep)

\* String.prototype.replace(key, value): the first occurrence only
ReplaceKey_FirstOnly(result, key, value) ==
    LET i == IndexOf(result, key, 1) IN
    IF i = 0 THEN result
    ELSE SubSeq(result, 1, i - 1) \o value
            \o SubSeq(result, i + Len(key), Len(result))

\* the loop body of replaceMultiple for one key
ReplaceKey(result, key, value) == Join(Split(result, key), value)

\* replaceMultiple: replacements is the object's own keys in insertion
\* order, as a sequence of <<key, value>> pairs
RECURSIVE replaceMultiple(_, _)
replaceMultiple(original, replacements) ==
    IF Len(replacements) = 0 THEN original
    ELSE replaceMultiple(
            ReplaceKey(original, replacements[1][1], replacements[1][2]),
            Tail(replacements))

\* the seven placeholder tokens
TokName == <<"{","n","a","m","e","}">>
TokAge == <<"{","a","g","e","}">>
TokAboutMe == <<"{","a","b","o","u","t","_","m","e","}">>
TokConversationType ==
    <<"{","c","o","n","v","e","r","s","a","t","i","o","n","_","t","y","p","e","}">>
TokSetting == <<"{","s","e","t","t","i","n","g","}">>
TokTone == <<"{","t","o","n","e","}">>
TokUtterance == <<"{","u","t","t","e","r","a","n","c","e","}">>

\* the replacements object with its keys inserted in the opposite order
Replacements_UtteranceFirst(tc) ==
    << <<TokUtterance, tc.utterance>>,
       <<TokTone, tc.context.tone>>,
       <<TokSetting, tc.context.setting>>,
       <<TokConversationType, tc.context.conversationType>>,
       <<TokAboutMe, tc.bio.aboutMe>>,
       <<TokAge, NumToString(tc.bio.age)>>,
       <<TokName, tc.bio.name>> >>

\* the replacements object runPromptTestCase builds from a test case
Replacements(tc) ==
    << <<TokName, tc.bio.name>>,
       <<TokAge, NumToString(tc.bio.age)>>,
       <<TokAboutMe, tc.bio.aboutMe>>,
       <<TokConversationType, tc.context.conversationType>>,
       <<TokSetting, tc.context.setting>>,
       <<TokTone, tc.context.tone>>,
       <<TokUtterance, tc.utterance>> >>

FormatPrompt(prompt, tc) == replaceMultiple(prompt, Replacements(tc))

----------------------------------------------------------------------------
(* Numbers *)

\* a JavaScript number: a finite fixed-point value or an IEEE special
Finite(v) == [kind |-> "finite", v |-> v]
NaN == [kind |-> "NaN", v |-> 0]
PosInfinity == [kind |-> "Infinity", v |-> 0]
NegInfinity == [kind |-> "-Infinity", v |-> 0]

DivTrunc(a, b) == IF a >= 0 THEN a \div b ELSE -((-a) \div b)

\* floor of the square root
ISqrt(x) == CHOOSE r \in 0..x : r * r <= x /\ (r + 1) * (r + 1) > x

RECURSIVE SumTo(_, _)
SumTo(f, n) == IF n = 0 THEN 0 ELSE f[n] + SumTo(f, n - 1)

\* math.dot, in units of 1/Scale^2
Dot(A, B) == SumTo([i \in 1..Len(A) |-> A[i] * B[i]], Len(A))

\* math.norm (Euclidean), in units of 1/Scale
Norm(A) == ISqrt(SumTo([i \in 1..Len(A) |-> A[i] * A[i]], Len(A)))

\* math.divide of one product (units 1/Scale^2) by another: IEEE division
Divide(x, y) ==
    IF y = 0
    THEN IF x = 0 THEN NaN ELSE IF x > 0 THEN PosInfinity ELSE NegInfinity
    ELSE Finite(DivTrunc(x * Scale, y))

cosineSimilarity(A, B) ==
    LET dotProduct == Dot(A, B)
        magnitudeA == Norm(A)
        magnitudeB == Norm(B)
    IN  Divide(dotProduct, magnitudeA * magnitudeB)

\* averageOfVectors throws a TypeError reading vectors[0].length of an
\* empty array
averageOfVectorsThrows(vectors) == Len(vectors) = 0

RECURSIVE Reduce(_, _)
Reduce(vectors, acc) ==
    IF Len(vectors) = 0 THEN acc
    ELSE Reduce(Tail(vectors),
                [i \in 1..Len(acc) |-> acc[i] + Head(vectors)[i]])

\* the reduce seeded with the first vector instead of zeros
averageOfVectors_SeededWithFirst(vectors) ==
    LET total == Reduce(vectors, vectors[1])
    IN  [i \in 1..Len(total) |-> DivTrunc(total[i], Len(vectors))]

averageOfVectors(vectors) ==
    LET total == Reduce(vectors, [i \in 1..Len(vectors[1]) |-> 0])
    IN  [i \in 1..Len(total) |-> DivTrunc(total[i], Len(vectors))]

\* x > y of JavaScript numbers: false whenever NaN is involved
Gt(x, y) ==
    CASE x.kind = "NaN" \/ y.kind = "NaN" -> FALSE
      [] x.kind = "Infinity" -> y.kind # "Infinity"
      [] x.kind = "-Infinity" -> FALSE
      [] y.kind = "Infinity" -> FALSE
      [] y.kind = "-Infinity" -> TRUE
      [] OTHER -> x.v > y.v

Lt(x, y) == Gt(y, x)

\* the range check of processTestCase: score > 1 || score < -1
OutOfRange(score) ==
    Gt(score, Finite(Scale)) \/ Lt(score, Finite(-Scale))

\* the text of a number inside a template literal
ScoreToString(x) ==
    CASE x.kind = "NaN" -> <<"N","a","N">>
      [] x.kind = "Infinity" -> <<"I","n","f">>
      [] x.kind = "-Infinity" -> <<"-","I","n","f">>
      [] OTHER -> IF x.v < 0 THEN <<"-">> \o NumToString(-x.v)
                  ELSE NumToString(x.v)

----------------------------------------------------------------------------
(* The inputs of the two invocations *)

\* identifiers: DataItem.id is optional; undefined and "" are both falsy
NoId == "undefined"
EmptyId == ""
RunIdOfRun == "run1"
TestCaseIdOf(p) == IF p = 1 THEN "tc1" ELSE "tc2"

Falsy(id) == id \in {NoId, EmptyId}

\* the run record's generation parameters
Run == [llmModel |-> "llm", embeddingsModel |-> "emb",
        temperature |-> 1, maxTokens |-> 50]

\* the run's prompt candidate: "{name} ({age}): {utterance}"
Prompt ==
    TokName \o <<" ", "(">> \o TokAge \o <<")", ":", " ">> \o TokUtterance

\* the two test cases: the first carries one reference completion, the
\* second two
TestCaseOf(p) ==
    IF p = 1
    THEN [bio |-> [name |-> <<"A","l">>, age |-> 5, aboutMe |-> <<"x">>],
          context |-> [tone |-> <<"t">>, setting |-> <<"s">>,
                       conversationType |-> <<"c">>],
          utterance |-> <<"h","i">>,
          goodCompletions |-> << <<"o","k">> >>]
    ELSE [bio |-> [name |-> <<"B","o">>, age |-> 42, aboutMe |-> <<"y">>],
          context |-> [tone |-> <<"u">>, setting |-> <<"r">>,
                       conversationType |-> <<"d">>],
          utterance |-> <<"y","o">>,
          goodCompletions |-> << <<"a">>, <<"b">> >>]

----------------------------------------------------------------------------
(* The external services *)

\* the completion service's answer of n texts to a prompt: the i-th text is
\* named by the prompt and i, so that answers to distinct prompts differ
CompletionsFor(prompt, n) == [i \in 1..n |-> prompt \o <<"#", Digit(i)>>]

\* the vectors the embedding service may return for one text
Vectors == {<<Scale, 0>>, <<0 - Scale, 0>>, <<Scale, Scale>>}

\* one vector per input text, in order
EmbeddingsFor(texts) == [1..Len(texts) -> Vectors]

\* thrown values: name "" is a thrown value that is not an Error instance
Thrown(name, message) == [name |-> name, message |-> message]
NoError == Thrown("none", <<>>)

\* what a failing attempt of a service call rejects with
ServiceFailures(stage, n) ==
    {Thrown("Error", <<stage, " failed, attempt ", Digit(n)>>),
     Thrown("", <<stage, " rejected, attempt ", Digit(n)>>)}

StoreFailure(op) == Thrown("Error", <<op, " failed">>)

\* error.toString()
ErrorToString(e) == <<e.name, ": ">> \o e.message

\* line 94: error instanceof Error ? error.toString() : "unknown error"
ErrorMessageOf(e) ==
    IF e.name # "" THEN ErrorToString(e) ELSE <<"unknown error">>

----------------------------------------------------------------------------
(* The result store *)

Keys == {<<RunIdOfRun, TestCaseIdOf(p)>> : p \in Procs}

AbsentScore == [kind |-> "absent", v |-> 0]
AbsentCompletions == [present |-> FALSE, value |-> <<>>]
NoRecord == [status |-> "NONE", errorMessage |-> <<>>,
             cosineSimilarityScore |-> AbsentScore,
             llmCompletions |-> AbsentCompletions]

\* updateTestCaseResultStatus(runId, testCaseId, status, message?)
updateTestCaseResultStatus(st, key, status, message) ==
    [st EXCEPT ![key] = [@ EXCEPT !.status = status,
                                  !.errorMessage = message]]

\* saveTestCaseResult(runId, testCaseId, score, completions)
saveTestCaseResult(st, key, score, completions) ==
    [st EXCEPT ![key] = [@ EXCEPT !.status = "DONE",
                                  !.cosineSimilarityScore = score,
                                  !.llmCompletions =
                                      [present |-> TRUE, value |-> completions]]]

\* a store request as the invocation issued it
StatusRequest(status, hasMessage, message) ==
    [op |-> "updateTestCaseResultStatus", status |-> status,
     hasMessage |-> hasMessage, message |-> message,
     score |-> AbsentScore, completions |-> AbsentCompletions,
     outcome |-> "pending"]

SaveRequest(score, completions) ==
    [op |-> "saveTestCaseResult", status |-> "DONE",
     hasMessage |-> FALSE, message |-> <<>>,
     score |-> score,
     completions |-> [present |-> TRUE, value |-> completions],
     outcome |-> "pending"]

\* the last request of a log answered
Answered(log, outcome) == [log EXCEPT ![Len(log)].outcome = outcome]

----------------------------------------------------------------------------
(* retryOnFailure *)

\* what the wrapper does once an attempt has settled: attemptsMade counts
\* the attempts made so far, this one included
RetryOutcome_OneMore(attemptsMade, maxAttempts, succeeded) ==
    IF succeeded THEN "return"
    ELSE IF attemptsMade <= maxAttempts THEN "retry" ELSE "throw"

RetryOutcome_IgnoreSuccess(attemptsMade, maxAttempts, succeeded) ==
    IF attemptsMade < maxAttempts THEN "retry"
    ELSE IF succeeded THEN "return" ELSE "throw"

RetryOutcome(attemptsMade, maxAttempts, succeeded) ==
    IF succeeded THEN "return"
    ELSE IF attemptsMade < maxAttempts THEN "retry" ELSE "throw"

\* what an attempt of the operation settles with
Outcome(ok, what) == [ok |-> ok, what |-> what]
NoOutcome == Outcome(FALSE, "none")

CallStages == {"getGptCompletion", "embedGpt", "embedGood"}

\* each call site passing one attempt more
MaxAttemptsOf_OneMore(stage) ==
    IF stage = "getGptCompletion" THEN OPENAI_MAX_RETRY + 1
    ELSE HUGGINGFACE_MAX_RETRY + 1

\* the maxAttempts each call site passes
MaxAttemptsOf(stage) ==
    IF stage = "getGptCompletion" THEN OPENAI_MAX_RETRY
    ELSE HUGGINGFACE_MAX_RETRY

----------------------------------------------------------------------------
(* processTestCase and runPromptTestCase: one action per resumption of an  *)
(* invocation, running to its next await                                   *)

KeyOf(p) == <<runId, testCaseId[p]>>

\* the arguments of the three retry-wrapped calls
CompletionArgs(prompt) ==
    [prompt |-> prompt, model |-> Run.llmModel,
     temperature |-> Run.temperature, maxTokens |-> Run.maxTokens]
EmbedArgs(texts) == [texts |-> texts, model |-> Run.embeddingsModel]

NoCalls == [getGptCompletion |-> {}, embedGpt |-> {}, embedGood |-> {}]

\* lines 37-42: the identifier checks
IdError_TestCaseOnly(p) ==
    IF Falsy(testCaseId[p]) THEN Thrown("Error", <<"Test case id is missing">>)
    ELSE NoError

IdError(p) ==
    IF Falsy(testCaseId[p]) THEN Thrown("Error", <<"Test case id is missing">>)
    ELSE IF Falsy(runId)
         THEN Thrown("Error", <<"Prompt test results id is missing">>)
         ELSE NoError

\* lines 88-95 with the message argument left out of the ERROR write
Catch_NoMessage(p, error) ==
    /\ caught' = [caught EXCEPT ![p] = error]
    /\ writes' = [writes EXCEPT ![p] =
                    Append(@, StatusRequest("ERROR", FALSE, <<>>))]
    /\ pc' = [pc EXCEPT ![p] = "writeError"]
    /\ attempt' = [attempt EXCEPT ![p] = 0]
    /\ delaying' = [delaying EXCEPT ![p] = FALSE]
    /\ gptCompletions' = [gptCompletions EXCEPT ![p] = <<>>]
    /\ gptEmbeddings' = [gptEmbeddings EXCEPT ![p] = <<>>]

\* lines 88-95: the catch block issues the ERROR status write
Catch(p, error) ==
    /\ caught' = [caught EXCEPT ![p] = error]
    /\ writes' = [writes EXCEPT ![p] =
                    Append(@, StatusRequest("ERROR", TRUE, ErrorMessageOf(error)))]
    /\ pc' = [pc EXCEPT ![p] = "writeError"]
    /\ attempt' = [attempt EXCEPT ![p] = 0]
    /\ delaying' = [delaying EXCEPT ![p] = FALSE]
    /\ gptCompletions' = [gptCompletions EXCEPT ![p] = <<>>]
    /\ gptEmbeddings' = [gptEmbeddings EXCEPT ![p] = <<>>]

\* lines 136-153 with the embedding call started alongside the completion
\* call instead of after it
IssueCompletion_WithEmbedding(p, prompt) ==
    /\ formattedPrompt' = [formattedPrompt EXCEPT ![p] = prompt]
    /\ issued' = [issued EXCEPT ![p].getGptCompletion =
                    @ \cup {CompletionArgs(prompt)},
                                ![p].embedGpt = @ \cup {EmbedArgs(<<>>)}]
    /\ attempt' = [attempt EXCEPT ![p] = 1]

\* lines 136-146: the first attempt of the completion call is issued
IssueCompletion(p, prompt) ==
    /\ formattedPrompt' = [formattedPrompt EXCEPT ![p] = prompt]
    /\ issued' = [issued EXCEPT ![p].getGptCompletion =
                    @ \cup {CompletionArgs(prompt)}]
    /\ attempt' = [attempt EXCEPT ![p] = 1]

\* lines 47-51 with the call issued without waiting for the write
AfterIdChecks_NoAwait(p) ==
    /\ writes' = [writes EXCEPT ![p] =
                    Append(@, StatusRequest("IN_PROGRESS", FALSE, <<>>))]
    /\ pc' = [pc EXCEPT ![p] = "getGptCompletion"]
    /\ IssueCompletion(p, FormatPrompt(Prompt, TestCaseOf(p)))
    /\ UNCHANGED raised

\* lines 47-51: the IN_PROGRESS write is issued and awaited
AfterIdChecks(p) ==
    /\ writes' = [writes EXCEPT ![p] =
                    Append(@, StatusRequest("IN_PROGRESS", FALSE, <<>>))]
    /\ pc' = [pc EXCEPT ![p] = "writeInProgress"]
    /\ UNCHANGED <<raised, formattedPrompt, issued, attempt>>

\* lines 31-51: the call of processTestCase
Invoke(p) ==
    /\ pc[p] = "init"
    /\ IF IdError(p) # NoError
       THEN /\ raised' = [raised EXCEPT ![p] = IdError(p)]
            /\ pc' = [pc EXCEPT ![p] = "thrown"]
            /\ UNCHANGED <<writes, formattedPrompt, issued, attempt>>
       ELSE AfterIdChecks(p)
    /\ UNCHANGED <<retryVars, expandVars, avgVars, runId, testCaseId, delaying, gptCompletions, gptEmbeddings,
                   llmCompletions, cosineSimilarityScore, caught, store>>

\* lines 47-51 and 53-63, 119-146: the IN_PROGRESS write is acknowledged;
\* the template is expanded and the completion call issued
InProgressWritten(p) ==
    /\ pc[p] = "writeInProgress"
    /\ store' = updateTestCaseResultStatus(store, KeyOf(p), "IN_PROGRESS", <<>>)
    /\ writes' = [writes EXCEPT ![p] = Answered(@, "applied")]
    /\ pc' = [pc EXCEPT ![p] = "getGptCompletion"]
    /\ IssueCompletion(p, FormatPrompt(Prompt, TestCaseOf(p)))
    /\ UNCHANGED <<retryVars, expandVars, avgVars, runId, testCaseId, delaying, gptCompletions, gptEmbeddings,
                   llmCompletions, cosineSimilarityScore, caught, raised>>

\* lines 47-51: the IN_PROGRESS write rejects, outside the try block
InProgressWriteFails(p) ==
    /\ pc[p] = "writeInProgress"
    /\ writes' = [writes EXCEPT ![p] = Answered(@, "failed")]
    /\ raised' = [raised EXCEPT ![p] = StoreFailure("updateTestCaseResultStatus")]
    /\ pc' = [pc EXCEPT ![p] = "thrown"]
    /\ UNCHANGED <<retryVars, expandVars, avgVars, runId, testCaseId, attempt, delaying, formattedPrompt,
                   gptCompletions, gptEmbeddings, llmCompletions,
                   cosineSimilarityScore, caught, store, issued>>

\* lines 136-162: an attempt of the call in flight fails
CallFails(p) ==
    /\ pc[p] \in CallStages
    /\ ~delaying[p]
    /\ \E e \in ServiceFailures(pc[p], attempt[p]) :
         IF RetryOutcome(attempt[p], MaxAttemptsOf(pc[p]), FALSE) = "retry"
         THEN /\ delaying' = [delaying EXCEPT ![p] = TRUE]
              /\ UNCHANGED <<pc, attempt, gptCompletions, gptEmbeddings,
                             caught, writes>>
         ELSE Catch(p, e)
    /\ UNCHANGED <<retryVars, expandVars, avgVars, runId, testCaseId, formattedPrompt, llmCompletions,
                   cosineSimilarityScore, raised, store, issued>>

\* lines 136-162: the delay is over and the call is attempted again
DelayElapsed(p) ==
    /\ pc[p] \in CallStages
    /\ delaying[p]
    /\ delaying' = [delaying EXCEPT ![p] = FALSE]
    /\ attempt' = [attempt EXCEPT ![p] = @ + 1]
    /\ UNCHANGED <<retryVars, expandVars, avgVars, runId, testCaseId, pc, formattedPrompt, gptCompletions,
                   gptEmbeddings, llmCompletions, cosineSimilarityScore,
                   caught, raised, store, issued, writes>>

\* lines 136-153: the completion call succeeds; the embedding call for the
\* generated completions is issued
CompletionSucceeds(p) ==
    /\ pc[p] = "getGptCompletion"
    /\ ~delaying[p]
    /\ RetryOutcome(attempt[p], OPENAI_MAX_RETRY, TRUE) = "return"
    /\ \E n \in 0..MaxTexts :
         LET texts == CompletionsFor(formattedPrompt[p], n) IN
         /\ gptCompletions' = [gptCompletions EXCEPT ![p] = texts]
         /\ issued' = [issued EXCEPT ![p].embedGpt = @ \cup {EmbedArgs(texts)}]
    /\ pc' = [pc EXCEPT ![p] = "embedGpt"]
    /\ attempt' = [attempt EXCEPT ![p] = 1]
    /\ UNCHANGED <<retryVars, expandVars, avgVars, runId, testCaseId, delaying, formattedPrompt, gptEmbeddings,
                   llmCompletions, cosineSimilarityScore, caught, raised,
                   store, writes>>

\* lines 148-162: the embedding call for the generated completions
\* succeeds; the one for the reference completions is issued
EmbedGptSucceeds(p) ==
    /\ pc[p] = "embedGpt"
    /\ ~delaying[p]
    /\ RetryOutcome(attempt[p], HUGGINGFACE_MAX_RETRY, TRUE) = "return"
    /\ \E vecs \in EmbeddingsFor(gptCompletions[p]) :
         gptEmbeddings' = [gptEmbeddings EXCEPT ![p] = vecs]
    /\ issued' = [issued EXCEPT ![p].embedGood =
                    @ \cup {EmbedArgs(TestCaseOf(p).goodCompletions)}]
    /\ pc' = [pc EXCEPT ![p] = "embedGood"]
    /\ attempt' = [attempt EXCEPT ![p] = 1]
    /\ UNCHANGED <<retryVars, expandVars, avgVars, runId, testCaseId, delaying, formattedPrompt, gptCompletions,
                   llmCompletions, cosineSimilarityScore, caught, raised,
                   store, writes>>

\* lines 64-87: runPromptTestCase has returned; the range check, then the
\* result save is issued
AfterScoring(p, completions, score) ==
    /\ llmCompletions' = [llmCompletions EXCEPT ![p] = completions]
    /\ cosineSimilarityScore' = [cosineSimilarityScore EXCEPT ![p] = score]
    /\ IF OutOfRange(score)
       THEN Catch(p, Thrown("Error",
                <<"Cosine similarity score is out of range [-1, 1]: ">>
                    \o ScoreToString(score)))
       ELSE /\ writes' = [writes EXCEPT ![p] =
                            Append(@, SaveRequest(score, completions))]
            /\ pc' = [pc EXCEPT ![p] = "saveResult"]
            /\ attempt' = [attempt EXCEPT ![p] = 0]
            /\ gptCompletions' = [gptCompletions EXCEPT ![p] = <<>>]
            /\ gptEmbeddings' = [gptEmbeddings EXCEPT ![p] = <<>>]
            /\ UNCHANGED <<caught, delaying>>

\* lines 154-170 and 64-87: the embedding call for the reference
\* completions succeeds; both sets are averaged and scored
EmbedGoodSucceeds(p) ==
    /\ pc[p] = "embedGood"
    /\ ~delaying[p]
    /\ RetryOutcome(attempt[p], HUGGINGFACE_MAX_RETRY, TRUE) = "return"
    /\ \E goodEmbeddings \in EmbeddingsFor(TestCaseOf(p).goodCompletions) :
         IF averageOfVectorsThrows(gptEmbeddings[p])
                \/ averageOfVectorsThrows(goodEmbeddings)
         THEN /\ Catch(p, Thrown("TypeError",
                    <<"Cannot read properties of undefined (reading 'length')">>))
              /\ UNCHANGED <<llmCompletions, cosineSimilarityScore>>
         ELSE LET avgGptEmbedding == averageOfVectors(gptEmbeddings[p])
                  avgGoodEmbedding == averageOfVectors(goodEmbeddings)
              IN  AfterScoring(p, gptCompletions[p],
                        cosineSimilarity(avgGptEmbedding, avgGoodEmbedding))
    /\ UNCHANGED <<retryVars, expandVars, avgVars, runId, testCaseId, formattedPrompt, raised, store, issued>>

\* lines 82-87, 97: the result save is acknowledged and the invocation
\* returns
SaveSucceeds(p) ==
    /\ pc[p] = "saveResult"
    /\ store' = saveTestCaseResult(store, KeyOf(p), cosineSimilarityScore[p],
                                   llmCompletions[p])
    /\ writes' = [writes EXCEPT ![p] = Answered(@, "applied")]
    /\ pc' = [pc EXCEPT ![p] = "returned"]
    /\ UNCHANGED <<retryVars, expandVars, avgVars, runId, testCaseId, attempt, delaying, formattedPrompt,
                   gptCompletions, gptEmbeddings, llmCompletions,
                   cosineSimilarityScore, caught, raised, issued>>

\* lines 82-95: the result save rejects, inside the try block
SaveFails(p) ==
    /\ pc[p] = "saveResult"
    /\ LET answered == [writes EXCEPT ![p] = Answered(@, "failed")]
           error == StoreFailure("saveTestCaseResult")
       IN  /\ caught' = [caught EXCEPT ![p] = error]
           /\ writes' = [answered EXCEPT ![p] =
                    Append(@, StatusRequest("ERROR", TRUE, ErrorMessageOf(error)))]
    /\ pc' = [pc EXCEPT ![p] = "writeError"]
    /\ UNCHANGED <<retryVars, expandVars, avgVars, runId, testCaseId, attempt, delaying, formattedPrompt,
                   gptCompletions, gptEmbeddings, llmCompletions,
                   cosineSimilarityScore, raised, store, issued>>

\* lines 90-97: the ERROR write is acknowledged and the invocation returns
ErrorWritten(p) ==
    /\ pc[p] = "writeError"
    /\ store' = updateTestCaseResultStatus(store, KeyOf(p), "ERROR",
                                           ErrorMessageOf(caught[p]))
    /\ writes' = [writes EXCEPT ![p] = Answered(@, "applied")]
    /\ pc' = [pc EXCEPT ![p] = "returned"]
    /\ UNCHANGED <<retryVars, expandVars, avgVars, runId, testCaseId, attempt, delaying, formattedPrompt,
                   gptCompletions, gptEmbeddings, llmCompletions,
                   cosineSimilarityScore, caught, raised, issued>>

\* lines 90-95: the ERROR write rejects, inside the catch block
ErrorWriteFails(p) ==
    /\ pc[p] = "writeError"
    /\ writes' = [writes EXCEPT ![p] = Answered(@, "failed")]
    /\ raised' = [raised EXCEPT ![p] = StoreFailure("updateTestCaseResultStatus")]
    /\ pc' = [pc EXCEPT ![p] = "thrown"]
    /\ UNCHANGED <<retryVars, expandVars, avgVars, runId, testCaseId, attempt, delaying, formattedPrompt,
                   gptCompletions, gptEmbeddings, llmCompletions,
                   cosineSimilarityScore, caught, store, issued>>

PipeInit ==
    /\ runId \in {RunIdOfRun, NoId, EmptyId}
    /\ testCaseId \in [Procs -> {"tc1", "tc2", NoId, EmptyId}]
    /\ \A p \in Procs : testCaseId[p] \in {TestCaseIdOf(p), NoId, EmptyId}
    /\ pc = [p \in Procs |-> "init"]
    /\ attempt = [p \in Procs |-> 0]
    /\ delaying = [p \in Procs |-> FALSE]
    /\ formattedPrompt = [p \in Procs |-> <<>>]
    /\ gptCompletions = [p \in Procs |-> <<>>]
    /\ gptEmbeddings = [p \in Procs |-> <<>>]
    /\ llmCompletions = [p \in Procs |-> <<>>]
    /\ cosineSimilarityScore = [p \in Procs |-> NegInfinity]
    /\ caught = [p \in Procs |-> NoError]
    /\ raised = [p \in Procs |-> NoError]
    /\ store = [k \in Keys |-> NoRecord]
    /\ issued = [p \in Procs |-> NoCalls]
    /\ writes = [p \in Procs |-> <<>>]

RetryIdle ==
    /\ rMax = 0 /\ rPc = "idle" /\ rCalls = 0 /\ rHistory = <<>>
    /\ rResult = NoOutcome

ExpandIdle ==
    /\ xTemplate = <<>> /\ xFixture = <<>> /\ xPc = "idle" /\ xResult = <<>>

\* the outcome of a call of averageOfVectors
Averaged(value) == [threw |-> FALSE, value |-> value]
AverageThrew == [threw |-> TRUE, value |-> <<>>]

AverageIdle ==
    /\ aVectors = <<>> /\ aPc = "idle" /\ aResult = AverageThrew

Init == PipeInit /\ RetryIdle /\ ExpandIdle /\ AverageIdle

Next ==
    \E p \in Procs :
        \/ Invoke(p)
        \/ InProgressWritten(p)
        \/ InProgressWriteFails(p)
        \/ CallFails(p)
        \/ DelayElapsed(p)
        \/ CompletionSucceeds(p)
        \/ EmbedGptSucceeds(p)
        \/ EmbedGoodSucceeds(p)
        \/ SaveSucceeds(p)
        \/ SaveFails(p)
        \/ ErrorWritten(p)
        \/ ErrorWriteFails(p)

Spec == Init /\ [][Next]_vars

----------------------------------------------------------------------------
(* The retry wrapper on its own: retryOnFailure(operation, rMax, delay)    *)
(* around an operation whose attempts succeed or fail freely               *)

OperationOutcomes ==
    {Outcome(TRUE, "v1"), Outcome(TRUE, "v2"),
     Outcome(FALSE, "e1"), Outcome(FALSE, "e2")}

\* the attempt in flight settles with outcome o
RetrySettle(o) ==
    /\ rPc = "calling"
    /\ rHistory' = Append(rHistory, o)
    /\ LET next == RetryOutcome(rCalls, rMax, o.ok) IN
       /\ rPc' = CASE next = "return" -> "returned"
                   [] next = "retry" -> "delaying"
                   [] OTHER -> "thrown"
       /\ rResult' = IF next = "retry" THEN rResult ELSE o
    /\ UNCHANGED <<rMax, rCalls>>

RetryAttemptSucceeds ==
    /\ \E o \in {x \in OperationOutcomes : x.ok} : RetrySettle(o)
    /\ UNCHANGED <<pipeVars, expandVars, avgVars>>

RetryAttemptFails ==
    /\ \E o \in {x \in OperationOutcomes : ~x.ok} : RetrySettle(o)
    /\ UNCHANGED <<pipeVars, expandVars, avgVars>>

\* the delay is over: the operation is invoked again
RetryDelayElapsed ==
    /\ rPc = "delaying"
    /\ rPc' = "calling"
    /\ rCalls' = rCalls + 1
    /\ UNCHANGED <<rMax, rHistory, rResult>>
    /\ UNCHANGED <<pipeVars, expandVars, avgVars>>

PipeIdle ==
    /\ runId = NoId
    /\ testCaseId = [p \in Procs |-> NoId]
    /\ pc = [p \in Procs |-> "idle"]
    /\ attempt = [p \in Procs |-> 0]
    /\ delaying = [p \in Procs |-> FALSE]
    /\ formattedPrompt = [p \in Procs |-> <<>>]
    /\ gptCompletions = [p \in Procs |-> <<>>]
    /\ gptEmbeddings = [p \in Procs |-> <<>>]
    /\ llmCompletions = [p \in Procs |-> <<>>]
    /\ cosineSimilarityScore = [p \in Procs |-> NegInfinity]
    /\ caught = [p \in Procs |-> NoError]
    /\ raised = [p \in Procs |-> NoError]
    /\ store = [k \in Keys |-> NoRecord]
    /\ issued = [p \in Procs |-> NoCalls]
    /\ writes = [p \in Procs |-> <<>>]

\* the wrapper is called: the first attempt is in flight
RetryInit ==
    /\ rMax \in 1..MaxRetryBound
    /\ rPc = "calling"
    /\ rCalls = 1
    /\ rHistory = <<>>
    /\ rResult = NoOutcome

RetryNext == RetryAttemptSucceeds \/ RetryAttemptFails \/ RetryDelayElapsed

InitRetry == RetryInit /\ PipeIdle /\ ExpandIdle /\ AverageIdle

SpecRetry == InitRetry /\ [][RetryNext]_vars

----------------------------------------------------------------------------
(* Template expansion on its own: FormatPrompt over templates assembled    *)
(* from pieces and over test cases                                         *)

Tokens == <<TokName, TokAge, TokAboutMe, TokConversationType, TokSetting,
            TokTone, TokUtterance>>

\* the pieces templates are assembled from: the tokens and some plain text,
\* some of it with a brace of its own
Pieces ==
    {Tokens[i] : i \in 1..Len(Tokens)}
        \cup {<<"H","i"," ">>, <<"{","a">>, <<"e","}">>}

RECURSIVE TemplatesOf(_)
TemplatesOf(n) ==
    IF n = 0 THEN {<<>>}
    ELSE TemplatesOf(n - 1)
            \cup {t \o q : t \in TemplatesOf(n - 1), q \in Pieces}

Templates == TemplatesOf(MaxPieces)

\* field values: plain text, text ending in a brace, the text of a token
PlainFixture ==
    [bio |-> [name |-> <<"A","l">>, age |-> 5, aboutMe |-> <<"x"," ","y">>],
     context |-> [tone |-> <<"t">>, setting |-> <<"s">>,
                  conversationType |-> <<"c">>],
     utterance |-> <<"h","i">>,
     goodCompletions |-> << <<"o","k">> >>]

SpecialValues == {<<"g","e","}">>, TokName, TokAge, TokUtterance, <<>>}

Fixtures ==
    {PlainFixture, [PlainFixture EXCEPT !.bio.age = 42]}
        \cup {[PlainFixture EXCEPT !.bio.name = v] : v \in SpecialValues}
        \cup {[PlainFixture EXCEPT !.bio.aboutMe = v] : v \in SpecialValues}
        \cup {[PlainFixture EXCEPT !.context.tone = v] : v \in SpecialValues}
        \cup {[PlainFixture EXCEPT !.utterance = v] : v \in SpecialValues}

ExpandInit ==
    /\ xTemplate \in Templates
    /\ xFixture \in Fixtures
    /\ xPc = "ready"
    /\ xResult = <<>>

\* lines 126-134: the prompt is formatted
Expand ==
    /\ xPc = "ready"
    /\ xResult' = FormatPrompt(xTemplate, xFixture)
    /\ xPc' = "done"
    /\ UNCHANGED <<xTemplate, xFixture>>
    /\ UNCHANGED <<pipeVars, retryVars, avgVars>>

ExpandNext == Expand

InitExpand == ExpandInit /\ PipeIdle /\ RetryIdle /\ AverageIdle

SpecExpand == InitExpand /\ [][ExpandNext]_vars

----------------------------------------------------------------------------
(* Vector averaging on its own: averageOfVectors over sequences of up to   *)
(* MaxTexts vectors of one dimension                                       *)

AverageElements == {0 - Scale, 0, Scale}

\* the sequences of n vectors of dimension d
VectorSeqs(n, d) == [1..n -> [1..d -> AverageElements]]

AverageInit ==
    /\ aVectors \in UNION {VectorSeqs(n, d) : n \in 0..MaxTexts, d \in 1..MaxDim}
    /\ aPc = "ready"
    /\ aResult = AverageThrew

\* lines 164-165: a set of embeddings is averaged
Average ==
    /\ aPc = "ready"
    /\ aResult' = IF averageOfVectorsThrows(aVectors) THEN AverageThrew
                  ELSE Averaged(averageOfVectors(aVectors))
    /\ aPc' = "done"
    /\ UNCHANGED aVectors
    /\ UNCHANGED <<pipeVars, retryVars, expandVars>>

AverageNext == Average

InitAverage == AverageInit /\ PipeIdle /\ RetryIdle /\ ExpandIdle

SpecAverage == InitAverage /\ [][AverageNext]_vars

----------------------------------------------------------------------------
(* Vocabulary of the properties *)

ValidIds(p) == ~Falsy(testCaseId[p]) /\ ~Falsy(runId)
Ended(p) == pc[p] \in {"returned", "thrown"}

\* a score within [-1, 1]
InRange(score) ==
    score.kind = "finite" /\ 0 - Scale <= score.v /\ score.v <= Scale

IsTerminal(status) == status \in {"DONE", "ERROR"}

\* the positions of the invocation's store requests that took effect
AppliedAt(p) == {i \in 1..Len(writes[p]) : writes[p][i].outcome = "applied"}
TerminalAt(p) == {i \in AppliedAt(p) : IsTerminal(writes[p][i].status)}

SaveIssued(p) ==
    \E i \in 1..Len(writes[p]) : writes[p][i].op = "saveTestCaseResult"

\* something failed inside the invocation
Failed(p) ==
    \/ caught[p] # NoError
    \/ \E i \in 1..Len(writes[p]) : writes[p][i].outcome = "failed"

----------------------------------------------------------------------------
(* C1 *)

\* C1: a record is persisted as DONE only with a score in [-1, 1]; a computed
\* score outside [-1, 1] or non-finite never reaches saveTestCaseResult and
\* the invocation persists ERROR.
C1_ScoreInRangeOrError ==
    /\ \A k \in Keys :
         store[k].status = "DONE" => InRange(store[k].cosineSimilarityScore)
    /\ \A p \in Procs :
         /\ \A i \in 1..Len(writes[p]) :
              writes[p][i].op = "saveTestCaseResult" => InRange(writes[p][i].score)
         /\ (ValidIds(p) /\ pc[p] = "returned"
                /\ llmCompletions[p] # <<>>
                /\ ~InRange(cosineSimilarityScore[p]))
              => store[KeyOf(p)].status = "ERROR"

(* C2 *)

\* C2: with both identifiers present the invocation never rejects, and every
\* failure path ends with ERROR persisted under (run id, test case id).
C2_NeverRaisesAlwaysError ==
    \A p \in Procs :
        ValidIds(p) =>
            /\ pc[p] # "thrown"
            /\ (Ended(p) /\ Failed(p)) => store[KeyOf(p)].status = "ERROR"

(* C3 *)

\* C3: an invocation whose test case or run lacks an identifier fails to its
\* caller with no completion call, no embedding call and no store write.
C3_MissingIdNoEffects ==
    \A p \in Procs :
        ~ValidIds(p) =>
            /\ pc[p] \in {"init", "thrown"}
            /\ pc[p] = "thrown" => raised[p] # NoError
            /\ issued[p] = NoCalls
            /\ writes[p] = <<>>
            /\ \A k \in Keys : store[k] = NoRecord \/ \E q \in Procs :
                    q # p /\ ValidIds(q) /\ KeyOf(q) = k

\* reached: a test case id is present, the run id is not, and the
\* invocation has been rejected
C3_Witness ==
    \E p \in Procs :
        /\ ~Falsy(testCaseId[p]) /\ Falsy(runId)
        /\ pc[p] = "thrown"

(* C4 *)

\* C4 (the part that holds): at most one terminal write of an invocation
\* takes effect, and no store request follows it.
C4_AtMostOneTerminalWrite ==
    \A p \in Procs :
        /\ Cardinality(TerminalAt(p)) <= 1
        /\ \A i \in TerminalAt(p) : i = Len(writes[p])

\* C4: within one invocation the record moves from IN_PROGRESS to a terminal
\* status exactly once: exactly one terminal write (DONE or ERROR, never
\* both) takes effect, and no write follows it.
C4_ExactlyOneTerminalWrite ==
    /\ C4_AtMostOneTerminalWrite
    /\ \A p \in Procs :
         (ValidIds(p) /\ Ended(p)) => Cardinality(TerminalAt(p)) = 1

(* C5 *)

\* C5: whenever a completion or embedding call has been issued, the
\* IN_PROGRESS write of the same invocation has already been acknowledged.
C5_InProgressBeforeCalls ==
    \A p \in Procs :
        issued[p] # NoCalls =>
            /\ Len(writes[p]) >= 1
            /\ writes[p][1].status = "IN_PROGRESS"
            /\ writes[p][1].outcome = "applied"
            /\ store[KeyOf(p)].status # "NONE"

\* reached: the first completion call is in flight
C5_Witness ==
    \E p \in Procs :
        /\ pc[p] = "getGptCompletion" /\ attempt[p] = 1
        /\ issued[p].getGptCompletion # {}
        /\ store[KeyOf(p)].status = "IN_PROGRESS"

(* C6 *)

\* C6 (the part that holds): what is persisted under an invocation's key is
\* what that invocation computed.
C6_NoCrossContamination ==
    \A p \in Procs :
        ValidIds(p) =>
            LET rec == store[KeyOf(p)] IN
            /\ rec.status = "DONE" =>
                 /\ rec.cosineSimilarityScore = cosineSimilarityScore[p]
                 /\ rec.llmCompletions =
                        [present |-> TRUE, value |-> llmCompletions[p]]
            /\ rec.status = "ERROR" =>
                 rec.errorMessage = ErrorMessageOf(caught[p])
            /\ rec.llmCompletions.present =>
                 \A i \in 1..Len(rec.llmCompletions.value) :
                    rec.llmCompletions.value[i]
                        = formattedPrompt[p] \o <<"#", Digit(i)>>

\* C6: two concurrent invocations for distinct test case ids of one run each
\* reach their own terminal status, and nothing persisted under one key
\* comes from the other invocation.
C6_IndependentTerminalStatus ==
    (\A q \in Procs : ValidIds(q) /\ pc[q] # "init") =>
        /\ C6_NoCrossContamination
        /\ \A p \in Procs : Ended(p) => IsTerminal(store[KeyOf(p)].status)

(* C7 *)

\* the first attempt that succeeded, 0 when none did
FirstSuccess ==
    LET ok == {k \in 1..Len(rHistory) : rHistory[k].ok}
    IN  IF ok = {} THEN 0 ELSE CHOOSE k \in ok : \A j \in ok : k <= j

\* C7: when the operation fails k-1 times and then succeeds on attempt
\* k <= maxAttempts, the wrapper returns that attempt's value and the
\* operation has been invoked exactly k times.
C7_ReturnsFirstSuccess ==
    FirstSuccess # 0 =>
        /\ FirstSuccess <= rMax
        /\ rPc = "returned"
        /\ rResult = rHistory[FirstSuccess]
        /\ rCalls = FirstSuccess
        /\ Len(rHistory) = FirstSuccess

\* reached: maxAttempts 4, two failures, success on the third call
C7_Witness ==
    /\ rMax = 4 /\ rPc = "returned" /\ rCalls = 3
    /\ ~rHistory[1].ok /\ ~rHistory[2].ok /\ rHistory[3].ok
    /\ rResult = rHistory[3]

(* C8 *)

\* C8: the operation is never invoked more than maxAttempts times; when
\* every attempt fails it is invoked exactly maxAttempts times and the
\* wrapper fails with the error of the last attempt.
C8_ThrowsLastErrorAfterMax ==
    /\ rPc # "idle" => rCalls <= rMax
    /\ (FirstSuccess = 0 /\ Len(rHistory) = rCalls /\ rCalls >= rMax) =>
            /\ rPc = "thrown"
            /\ rResult = rHistory[rMax]
    /\ rPc = "thrown" =>
            /\ rCalls = rMax
            /\ Len(rHistory) = rMax
            /\ FirstSuccess = 0
            /\ rResult = rHistory[rMax]

\* reached: maxAttempts 3, three failures with distinct first and last
\* errors, the wrapper has failed
C8_Witness ==
    /\ rMax = 3 /\ rPc = "thrown" /\ rCalls = 3
    /\ rHistory[1] # rHistory[3]
    /\ rResult = rHistory[3]

(* C9 *)

\* C9: when an averaged embedding vector has zero magnitude (exactly when
\* the quotient of cosineSimilarity is 0/0, NaN) the result save is never
\* issued, DONE is never persisted with that score, and the invocation ends
\* with ERROR.
C9_ZeroMagnitudeIsError ==
    \A p \in Procs :
        cosineSimilarityScore[p].kind = "NaN" =>
            /\ ~SaveIssued(p)
            /\ store[KeyOf(p)].status # "DONE"
            /\ pc[p] = "returned" => store[KeyOf(p)].status = "ERROR"

(* C10 *)

HasBrace(s) == \E i \in 1..Len(s) : s[i] \in {"{", "}"}

ContainsToken(s) == \E i \in 1..Len(Tokens) : IndexOf(s, Tokens[i], 1) # 0

\* the token, if any, whose text starts s: its index in reps, else 0
TokenAtHead(s, reps) ==
    LET at == {i \in 1..Len(reps) :
                 /\ Len(reps[i][1]) <= Len(s)
                 /\ SubSeq(s, 1, Len(reps[i][1])) = reps[i][1]}
    IN  IF at = {} THEN 0 ELSE CHOOSE i \in at : TRUE

\* one simultaneous left-to-right substitution of the tokens of the template
RECURSIVE Simultaneous(_, _)
Simultaneous(s, reps) ==
    IF Len(s) = 0 THEN <<>>
    ELSE LET i == TokenAtHead(s, reps) IN
         IF i = 0 THEN <<Head(s)>> \o Simultaneous(Tail(s), reps)
         ELSE reps[i][2]
                \o Simultaneous(SubSeq(s, Len(reps[i][1]) + 1, Len(s)), reps)

FieldValues(tc) == {Replacements(tc)[i][2] : i \in 1..Len(Tokens)}

\* the text of a template outside its token occurrences
StrayText(template) ==
    Simultaneous(template, [i \in 1..Len(Tokens) |-> <<Tokens[i], <<>> >>])

\* C10 as stated: when no field value contains a placeholder token, the
\* expansion equals one simultaneous substitution.
C10_Original ==
    (xPc = "done" /\ \A v \in FieldValues(xFixture) : ~ContainsToken(v))
        => xResult = Simultaneous(xTemplate, Replacements(xFixture))

\* C10 as amended: when no brace occurs in a field value nor in the template
\* outside its token occurrences, the expansion equals one simultaneous
\* substitution: every occurrence of each token is replaced by its field
\* value and all other text is unchanged.
C10_BraceFreeSimultaneous ==
    (/\ xPc = "done"
     /\ \A v \in FieldValues(xFixture) : ~HasBrace(v)
     /\ ~HasBrace(StrayText(xTemplate)))
        => xResult = Simultaneous(xTemplate, Replacements(xFixture))

\* reached: "{name}{name}" with name "Al" has given "AlAl"
C10_Witness ==
    /\ xPc = "done"
    /\ xTemplate = TokName \o TokName
    /\ \A v \in FieldValues(xFixture) : ~HasBrace(v)
    /\ xResult = <<"A","l","A","l">>

(* C11 *)

\* C11: averageOfVectors of a sequence holding exactly one non-empty vector
\* v returns v, element by element.
C11_AverageOfOneIsItself ==
    (aPc = "done" /\ Len(aVectors) = 1 /\ Len(aVectors[1]) >= 1) =>
        /\ ~aResult.threw
        /\ Len(aResult.value) = Len(aVectors[1])
        /\ \A i \in 1..Len(aVectors[1]) : aResult.value[i] = aVectors[1][i]

\* reached: one vector of two elements, not all zero, has been averaged
C11_Witness ==
    /\ aPc = "done"
    /\ Len(aVectors) = 1 /\ Len(aVectors[1]) = 2
    /\ aVectors[1][1] = Scale /\ aVectors[1][2] = 0 - Scale
    /\ aResult = Averaged(aVectors[1])

(* C12 *)

\* the last request the invocation sent to the result store
LastWrite(p) == writes[p][Len(writes[p])]

\* what has happened by the time each step of an invocation is seen
C12_Order(p) ==
    /\ issued[p].embedGpt # {} => issued[p].getGptCompletion # {}
    /\ issued[p].embedGood # {} => issued[p].embedGpt # {}
    /\ cosineSimilarityScore[p] # NegInfinity =>
            issued[p].embedGpt # {} /\ issued[p].embedGood # {}
    /\ SaveIssued(p) => cosineSimilarityScore[p] # NegInfinity
    /\ pc[p] \in {"init", "writeInProgress", "getGptCompletion"} =>
            issued[p].embedGpt = {} /\ issued[p].embedGood = {}
    /\ pc[p] \in {"init", "writeInProgress", "getGptCompletion", "embedGpt",
                  "embedGood"} =>
            cosineSimilarityScore[p] = NegInfinity /\ ~SaveIssued(p)

\* the step in which each call is issued
C12_Step(p) ==
    /\ issued'[p].embedGpt # issued[p].embedGpt =>
            /\ pc[p] = "getGptCompletion" /\ ~delaying[p]
            /\ pc'[p] = "embedGpt"
            /\ issued'[p].embedGpt = {EmbedArgs(gptCompletions'[p])}
    /\ issued'[p].embedGood # issued[p].embedGood =>
            /\ pc[p] = "embedGpt" /\ ~delaying[p]
            /\ pc'[p] = "embedGood"
            /\ Len(gptEmbeddings'[p]) = Len(gptCompletions[p])
    /\ cosineSimilarityScore'[p] # cosineSimilarityScore[p] =>
            /\ pc[p] = "embedGood" /\ ~delaying[p]
            /\ Len(gptEmbeddings[p]) = Len(gptCompletions[p])
    /\ Len(writes'[p]) > Len(writes[p])
            /\ writes'[p][Len(writes'[p])].op = "saveTestCaseResult" =>
            /\ pc[p] = "embedGood"
            /\ cosineSimilarityScore'[p] # NegInfinity
            /\ writes'[p][Len(writes'[p])].score = cosineSimilarityScore'[p]

\* C12: within one invocation no embedding call is issued before a
\* completion call has succeeded, the score is computed only after both
\* embedding calls have succeeded, and the result save is issued only after
\* scoring, with the score just computed.
C12_StrictlySequential ==
    /\ [](\A p \in Procs : C12_Order(p))
    /\ [][\A p \in Procs : C12_Step(p)]_vars

\* reached: an invocation has scored and is waiting for its result save
C12_Witness ==
    \E p \in Procs :
        /\ pc[p] = "saveResult"
        /\ issued[p].getGptCompletion # {}
        /\ issued[p].embedGpt # {} /\ issued[p].embedGood # {}
        /\ InRange(cosineSimilarityScore[p])
        /\ LastWrite(p).op = "saveTestCaseResult"
        /\ LastWrite(p).score = cosineSimilarityScore[p]

(* C13 *)

\* what one store request of an invocation carries
C13_Request(w) ==
    /\ w.hasMessage <=> w.status = "ERROR"
    /\ w.status = "ERROR" => Len(w.message) > 0
    /\ w.status = "IN_PROGRESS" => ~w.hasMessage /\ w.message = <<>>
    /\ (w.score # AbsentScore \/ w.completions.present) =>
            w.op = "saveTestCaseResult" /\ w.status = "DONE"
    /\ w.op = "updateTestCaseResultStatus" =>
            w.status \in {"IN_PROGRESS", "ERROR"}

\* C13: a status write carries an error message exactly when it sets ERROR,
\* and then a non-empty one; a score and completions are written only by
\* the write that sets DONE; an invocation in which a step after
\* IN_PROGRESS failed leaves no score and no completions in its record.
C13_MessageOnlyOnErrorResultOnlyOnDone ==
    \A p \in Procs :
        /\ \A i \in 1..Len(writes[p]) : C13_Request(writes[p][i])
        /\ (ValidIds(p) /\ Failed(p)) =>
                /\ store[KeyOf(p)].cosineSimilarityScore = AbsentScore
                /\ ~store[KeyOf(p)].llmCompletions.present
                /\ store[KeyOf(p)].status # "DONE"

\* reached: completions had been obtained, a later step failed, and the
\* record holds ERROR with a message and neither score nor completions
C13_Witness ==
    \E p \in Procs :
        /\ pc[p] = "returned"
        /\ \E args \in issued[p].embedGpt : Len(args.texts) > 0
        /\ caught[p] # NoError
        /\ store[KeyOf(p)].status = "ERROR"
        /\ Len(store[KeyOf(p)].errorMessage) > 0
        /\ store[KeyOf(p)].cosineSimilarityScore = AbsentScore
        /\ ~store[KeyOf(p)].llmCompletions.present
        /\ Len(writes[p]) = 2
        /\ ~writes[p][1].hasMessage /\ writes[p][2].hasMessage

(* C14 *)

\* the field value substituted for a token
ValueOf(tc, token) ==
    LET reps == Replacements(tc)
    IN  reps[CHOOSE i \in 1..Len(reps) : reps[i][1] = token][2]

\* the tokens in the order {name}, {age}, {about_me}, {conversation_type},
\* {setting}, {tone}, {utterance}, each with its field value
InTokenOrder(tc) == [i \in 1..Len(Tokens) |-> <<Tokens[i], ValueOf(tc, Tokens[i])>>]

\* the pairs from position i on, each value with the tokens processed after
\* it replaced inside it; tokens processed before it are left as they are
RECURSIVE ResolvedFrom(_, _)
ResolvedFrom(reps, i) ==
    IF i > Len(reps) THEN <<>>
    ELSE LET later == ResolvedFrom(reps, i + 1)
         IN  << <<reps[i][1], Simultaneous(reps[i][2], later)>> >> \o later

\* C14: the tokens are processed in the order {name}, {age}, {about_me},
\* {conversation_type}, {setting}, {tone}, {utterance}: for a template whose
\* text outside its tokens has no brace, the expansion is the template with
\* every token replaced by its field value, in which the text of a token
\* processed later has in turn been replaced by that token's field value
\* (and the text of a token processed earlier or of the same token has not).
C14_LaterTokenInsideValueReplaced ==
    (xPc = "done" /\ ~HasBrace(StrayText(xTemplate))) =>
        xResult = Simultaneous(xTemplate, ResolvedFrom(InTokenOrder(xFixture), 1))

\* reached: "{name}" with name "{age}" and age 5 has given "5"
C14_Witness ==
    /\ xPc = "done"
    /\ xTemplate = TokName
    /\ xFixture.bio.name = TokAge
    /\ xFixture.bio.age = 5
    /\ xResult = <<"5">>

(* C15 *)

\* the calls an invocation has made of each service, and with what
C15_Calls(p) ==
    /\ pc[p] \in CallStages => attempt[p] >= 1 /\ attempt[p] <= 4
    /\ pc[p] \notin CallStages => attempt[p] = 0
    /\ issued[p].getGptCompletion \subseteq
            {[prompt |-> FormatPrompt(Prompt, TestCaseOf(p)),
              model |-> Run.llmModel, temperature |-> Run.temperature,
              maxTokens |-> Run.maxTokens]}
    /\ Cardinality(issued[p].embedGpt) <= 1
    /\ \A args \in issued[p].embedGpt : args.model = Run.embeddingsModel
    /\ issued[p].embedGood \subseteq
            {[texts |-> TestCaseOf(p).goodCompletions,
              model |-> Run.embeddingsModel]}

\* a call is started once, with its first attempt, and every further
\* attempt is one more attempt of the same call with the same arguments
C15_Step(p) ==
    /\ (pc'[p] \in CallStages /\ pc'[p] # pc[p]) =>
            /\ issued[p][pc'[p]] = {}
            /\ Cardinality(issued'[p][pc'[p]]) = 1
            /\ attempt'[p] = 1
    /\ (pc'[p] \in CallStages /\ pc'[p] = pc[p]) =>
            /\ attempt'[p] \in {attempt[p], attempt[p] + 1}
            /\ issued'[p] = issued[p]
            /\ formattedPrompt'[p] = formattedPrompt[p]
            /\ gptCompletions'[p] = gptCompletions[p]

\* C15: in one invocation the completion service is called at most 4 times,
\* the embedding service at most 4 times for the generated completions and
\* at most 4 times for the reference completions, and every attempt of a
\* call uses the same arguments: the expanded prompt and the run's model,
\* temperature, maxTokens and embeddings model.
C15_AtMostFourCallsSameArguments ==
    /\ [](\A p \in Procs : C15_Calls(p))
    /\ [][\A p \in Procs : C15_Step(p)]_vars

\* reached: the fourth attempt of the embedding call for the reference
\* completions is in flight
C15_Witness ==
    \E p \in Procs :
        /\ pc[p] = "embedGood" /\ attempt[p] = 4 /\ ~delaying[p]
        /\ issued[p].embedGood = {EmbedArgs(TestCaseOf(p).goodCompletions)}
        /\ Cardinality(issued[p].getGptCompletion) = 1

(* C16 *)

\* the steps an invocation can still take, at most
StepsLeft(p) ==
    LET inStage == 2 * (MaxAttemptsOf(pc[p]) - attempt[p])
                        + (IF delaying[p] THEN 0 ELSE 1)
        perStage == 2 * HUGGINGFACE_MAX_RETRY
    IN  CASE pc[p] = "init" -> 3 * perStage + 4
          [] pc[p] = "writeInProgress" -> 3 * perStage + 3
          [] pc[p] = "getGptCompletion" -> 2 * perStage + 2 + inStage
          [] pc[p] = "embedGpt" -> perStage + 2 + inStage
          [] pc[p] = "embedGood" -> 2 + inStage
          [] pc[p] = "saveResult" -> 2
          [] pc[p] = "writeError" -> 1
          [] OTHER -> 0

\* C16 (the part that holds): no sequence of service failures keeps an
\* invocation running forever: every step is a step of one invocation that
\* has not ended and lowers the number of steps it can still take, and an
\* invocation that has ended changes neither its position nor its record.
C16_EveryStepProgresses ==
    [][\E p \in Procs :
          /\ ~Ended(p)
          /\ StepsLeft(p)' < StepsLeft(p) /\ StepsLeft(p)' >= 0
          /\ \A q \in Procs \ {p} :
                /\ pc'[q] = pc[q]
                /\ ValidIds(q) => store'[KeyOf(q)] = store[KeyOf(q)]]_vars

\* C16: an invocation with valid identifiers reaches a terminal status and
\* returns: since an invocation that has ended takes no further step, one
\* that has ended has returned and left DONE or ERROR in its record.
C16_EndsWithTerminalStatus ==
    \A p \in Procs :
        (ValidIds(p) /\ Ended(p)) =>
            /\ pc[p] = "returned"
            /\ store[KeyOf(p)].status \in {"DONE", "ERROR"}

(* C17 *)

\* the call of the stage has failed on its last attempt and the failure was
\* caught
ExhaustedAt(p, stage) ==
    caught[p] \in ServiceFailures(stage, MaxAttemptsOf(stage))

\* the calls that are not made once a call has exhausted its retries
NoLaterCall(p) ==
    /\ ExhaustedAt(p, "getGptCompletion") =>
            issued[p].embedGpt = {} /\ issued[p].embedGood = {}
    /\ ExhaustedAt(p, "embedGpt") => issued[p].embedGood = {}
    /\ (ExhaustedAt(p, "getGptCompletion") \/ ExhaustedAt(p, "embedGpt")) =>
            ~SaveIssued(p)

\* C17 (the part that holds): once the completion call has exhausted its
\* retries no embedding call is issued, once the first embedding call has
\* exhausted its retries the second is not issued, in both cases the result
\* save is not called, and the last request sent to the store is the ERROR
\* status write with its message.
C17_NoLaterCallErrorRequested ==
    \A p \in Procs :
        /\ NoLaterCall(p)
        /\ (ExhaustedAt(p, "getGptCompletion") \/ ExhaustedAt(p, "embedGpt")) =>
                /\ LastWrite(p).op = "updateTestCaseResultStatus"
                /\ LastWrite(p).status = "ERROR"
                /\ LastWrite(p).message = ErrorMessageOf(caught[p])

\* C17: when the completion call exhausts its retries no embedding call is
\* issued; when the embedding call for the generated completions exhausts
\* its retries the one for the reference completions is never issued; in
\* both cases the result save is never called and ERROR is written.
C17_FailFastErrorWritten ==
    \A p \in Procs :
        /\ NoLaterCall(p)
        /\ ((ExhaustedAt(p, "getGptCompletion") \/ ExhaustedAt(p, "embedGpt"))
                /\ Ended(p)) =>
                store[KeyOf(p)].status = "ERROR"

(* C18 *)

\* the completion call has succeeded with an empty sequence of completions
EmptyCompletions(p) == EmbedArgs(<<>>) \in issued[p].embedGpt

\* vectors[0].length on an empty array
EmptyAverageError ==
    Thrown("TypeError",
           <<"Cannot read properties of undefined (reading 'length')">>)

\* C18 (the part that holds): with an empty sequence of completions the
\* result save is never called and the record never becomes DONE; once both
\* embedding calls have succeeded the averaging throws, that error is caught
\* and the ERROR write carrying it is requested; no record ever holds an
\* empty completion list.
C18_EmptyCompletionsNeverSaved ==
    \A p \in Procs :
        /\ EmptyCompletions(p) =>
            /\ ~SaveIssued(p)
            /\ store[KeyOf(p)].status # "DONE"
            /\ cosineSimilarityScore[p] = NegInfinity
            /\ (/\ issued[p].embedGood # {}
                /\ pc[p] \notin CallStages
                /\ ~ExhaustedAt(p, "embedGood")) =>
                    /\ caught[p] = EmptyAverageError
                    /\ LastWrite(p).status = "ERROR"
                    /\ LastWrite(p).message = ErrorToString(EmptyAverageError)
        /\ ValidIds(p) =>
            (store[KeyOf(p)].llmCompletions.present =>
                Len(store[KeyOf(p)].llmCompletions.value) > 0)

\* C18: when the completion service returns an empty sequence of
\* completions, averaging the empty vector sequence fails and the evaluation
\* ends with status ERROR; it never persists DONE with an empty completion
\* list.
C18_EmptyCompletionsEndInError ==
    \A p \in Procs :
        EmptyCompletions(p) =>
            /\ store[KeyOf(p)].status # "DONE"
            /\ Ended(p) => store[KeyOf(p)].status = "ERROR"

============================================================================
